---- MODULE Spec2Model ----
(***************************************************************************)
(* The credit ledger of app/core/credit.py: the orchestrators recharge,    *)
(* reward, adjustment, expense_message and update_daily_quota, run by      *)
(* concurrent callers against a transactional store with row locks.        *)
(*                                                                         *)
(* Amounts are integers counting 1/PctDen of a credit; a percentage is a   *)
(* numerator over PctDen.  Decimal multiplication is exact, so the product *)
(* base * pct is (base * num) \div PctDen, which is exact for the whole    *)
(* credit base amounts the callers submit.                                 *)
(***************************************************************************)
EXTENDS Integers, Sequences, FiniteSets, TLC

\* ---------------------------------------------------------------- bounds
MaxAmount == 2      \* largest amount submitted to recharge / reward / adjustment
MaxBase   == 1      \* largest base_llm_amount submitted, in whole credits
MaxClock  == 1      \* the wall clock runs from 0 to MaxClock ticks
MaxQuota  == 1      \* largest free_quota / refill_amount submitted

PctDen       == 2   \* percentages are numerators over PctDen
TicksPerHour == 1   \* clock ticks per refill interval

Procs  == {"p1", "p2"}
Users  == {"U1", "U2"}
Agents == {"A1"}
TxIds  == {"T1", "T2"}

DEFAULT_PLATFORM_ACCOUNT_RECHARGE   == "RECHARGE"
DEFAULT_PLATFORM_ACCOUNT_REWARD     == "REWARD"
DEFAULT_PLATFORM_ACCOUNT_ADJUSTMENT == "ADJUSTMENT"
DEFAULT_PLATFORM_ACCOUNT_FEE        == "FEE"

PlatformIds == {DEFAULT_PLATFORM_ACCOUNT_RECHARGE, DEFAULT_PLATFORM_ACCOUNT_REWARD,
                DEFAULT_PLATFORM_ACCOUNT_ADJUSTMENT, DEFAULT_PLATFORM_ACCOUNT_FEE}

\* CreditType / OwnerType
CreditType == {"PERMANENT", "FREE", "REWARD"}
UserKey(u)     == <<"USER", u>>
AgentKey(a)    == <<"AGENT", a>>
PlatformKey(n) == <<"PLATFORM", n>>
AcctKeys == {UserKey(u) : u \in Users} \cup {AgentKey(a) : a \in Agents}
            \cup {PlatformKey(n) : n \in PlatformIds}
NoAcct == <<"NONE", "NONE">>

Min(a, b) == IF a < b THEN a ELSE b
Abs(a)    == IF a < 0 THEN -a ELSE a

\* Decimal product of an amount and a percentage.
PctMul(amount, pct) == (amount * pct) \div PctDen

\* ---------------------------------------------------------------- accounts
\* A row of CreditAccountTable; the row id is identified with its unique
\* (owner_type, owner_id) key.
Absent ==
    [exists |-> FALSE, credits |-> 0, free_credits |-> 0, reward_credits |-> 0,
     free_quota |-> 0, refill_amount |-> 0, last_refill_at |-> 0]

Zeroed(t) == [Absent EXCEPT !.exists = TRUE, !.last_refill_at = t]

Balance(a) == a.credits + a.free_credits + a.reward_credits

Pool(a, ct) ==
    CASE ct = "PERMANENT" -> a.credits
      [] ct = "FREE"      -> a.free_credits
      [] ct = "REWARD"    -> a.reward_credits

AddPool(a, ct, d) ==
    CASE ct = "PERMANENT" -> [a EXCEPT !.credits = @ + d]
      [] ct = "FREE"      -> [a EXCEPT !.free_credits = @ + d]
      [] ct = "REWARD"    -> [a EXCEPT !.reward_credits = @ + d]

\* get_or_create: the row, a zeroed one when absent.
get_or_create_in_session(a, t) == IF a.exists THEN a ELSE Zeroed(t)

HoursElapsed(last, t) == (t - last) \div TicksPerHour
TruncHour(t)          == t - (t % TicksPerHour)

\* Faulty variant of Refill: the refilled amount is not capped by free_quota.
RefillUncapped(a, t) ==
    IF a.refill_amount > 0 /\ HoursElapsed(a.last_refill_at, t) >= 1
    THEN [a EXCEPT !.free_credits =
                       a.free_credits + a.refill_amount * HoursElapsed(a.last_refill_at, t),
                   !.last_refill_at = TruncHour(t)]
    ELSE a

\* The hourly refill applied on a locked read.
Refill(a, t) ==
    IF a.refill_amount > 0 /\ HoursElapsed(a.last_refill_at, t) >= 1
    THEN [a EXCEPT !.free_credits =
                       Min(a.free_quota,
                           a.free_credits + a.refill_amount * HoursElapsed(a.last_refill_at, t)),
                   !.last_refill_at = TruncHour(t)]
    ELSE a

PrimOk(a, label) == [ok |-> TRUE, err |-> "none", acct |-> a, label |-> label]
PrimFail(e)      == [ok |-> FALSE, err |-> e, acct |-> Absent, label |-> "PERMANENT"]

\* income: refill, then add amount to the named pool.
income_in_session(a, t, amount, ct) ==
    IF amount <= 0 THEN PrimFail("InvalidAmount")
    ELSE PrimOk(AddPool(Refill(get_or_create_in_session(a, t), t), ct, amount), ct)

\* Faulty variant of deduction_in_session: the pool balance is not checked.
DeductionUnchecked(k, a, t, amount, ct) ==
    PrimOk(AddPool(Refill(get_or_create_in_session(a, t), t), ct, -amount), ct)

\* deduction: refill, then subtract from the named pool, no fallback across
\* pools; platform accounts may go negative.
deduction_in_session(k, a, t, amount, ct) ==
    LET r == Refill(get_or_create_in_session(a, t), t) IN
    IF k[1] # "PLATFORM" /\ Pool(r, ct) < amount THEN PrimFail("InsufficientFunds")
    ELSE PrimOk(AddPool(r, ct, -amount), ct)

\* expense: refill, then consume free -> reward -> permanent; the label is the
\* deepest pool needed.
ExpenseLabel(r, amount) ==
    IF amount <= r.free_credits THEN "FREE"
    ELSE IF amount <= r.free_credits + r.reward_credits THEN "REWARD"
    ELSE "PERMANENT"

expense_in_session(a, t, amount) ==
    LET r     == Refill(get_or_create_in_session(a, t), t)
        fromF == Min(amount, r.free_credits)
        fromR == Min(amount - fromF, r.reward_credits)
        fromP == amount - fromF - fromR
    IN IF Balance(r) < amount THEN PrimFail("InsufficientFunds")
       ELSE PrimOk([r EXCEPT !.free_credits = @ - fromF,
                             !.reward_credits = @ - fromR,
                             !.credits = @ - fromP],
                   ExpenseLabel(r, amount))


\* ---------------------------------------------------------------- state
VARIABLES
    accounts,   \* committed rows of CreditAccountTable, by (owner_type, owner_id)
    events,     \* committed rows of CreditEventTable
    legs,       \* committed rows of CreditTransactionTable
    nextId,     \* the next value XID() returns
    now,        \* the wall clock, in ticks
    payment_fee_platform_percentage,   \* config, a numerator over PctDen
    procs,      \* each caller's call in flight: arguments, position, open transaction
    lister      \* a client paging through a listing: arguments, cursor, events seen

vars == <<accounts, events, legs, nextId, now,
          payment_fee_platform_percentage, procs, lister>>

NoEvent ==
    [id |-> 0, event_type |-> "NONE", upstream_type |-> "NONE", upstream_tx_id |-> "NONE",
     direction |-> "NONE", account_id |-> NoAcct, total_amount |-> 0,
     credit_type |-> "PERMANENT", balance_after |-> 0, base_amount |-> 0,
     base_original_amount |-> 0, base_llm_amount |-> 0, fee_platform_amount |-> 0,
     fee_agent_amount |-> 0, fee_agent_account |-> NoAcct, agent_id |-> "NONE"]

NoWrites == [k \in AcctKeys |-> Absent]

\* A caller between calls.
Idle ==
    [pc |-> "idle", op |-> "none", user |-> "NONE", amount |-> 0, ctype |-> "PERMANENT",
     utype |-> "NONE", txid |-> "NONE", note |-> FALSE,
     agent |-> "NONE", owner |-> "NONE", agent_pct |-> 0,
     has_fq |-> FALSE, fq |-> 0, has_ra |-> FALSE, ra |-> 0,
     fee_platform |-> 0, fee_agent |-> 0, total |-> 0, label |-> "PERMANENT",
     locks |-> {}, writes |-> NoWrites, pre |-> Absent, ev |-> NoEvent,
     result |-> "none", failedAt |-> "none"]

\* A finished call: the transaction is gone, the outcome stays until the next call.
Done(c, result, at) ==
    [Idle EXCEPT !.pc = "done", !.utype = c.utype, !.txid = c.txid,
                 !.result = result, !.failedAt = at]

InTx == {"user", "platform", "agent", "event", "flush", "commit", "quota"}

\* The row k as the transaction of c sees it: its own write, else the committed row.
View(c, k) == IF k \in c.locks THEN c.writes[k] ELSE accounts[k]

\* Faulty variant of LockFree: the rows are read without FOR UPDATE.
LockNeverWaits(p, k) == TRUE

\* SELECT ... FOR UPDATE / UPDATE on row k waits while another transaction holds it.
LockFree(p, k) == \A q \in Procs \ {p} : k \notin procs[q].locks

\* CreditEvent.check_upstream_tx_id_exists: reads the committed events.
check_upstream_tx_id_exists(utype, txid) ==
    \E e \in events : e.upstream_type = utype /\ e.upstream_tx_id = txid


\* ---------------------------------------------------------------- recharge
\* Faulty variant of recharge_enter: the amount is validated before the duplicate lookup.
RechargeValidateFirst(c) ==
    IF c.amount <= 0 THEN Done(c, "InvalidAmount", "validate")
    ELSE IF check_upstream_tx_id_exists("API", c.txid)
    THEN Done(c, "DuplicateUpstreamTx", "check")
    ELSE [c EXCEPT !.pc = "user"]

recharge_enter(c) ==
    IF check_upstream_tx_id_exists("API", c.txid)
    THEN Done(c, "DuplicateUpstreamTx", "check")
    ELSE IF c.amount <= 0 THEN Done(c, "InvalidAmount", "validate")
    ELSE [c EXCEPT !.pc = "user"]

recharge_user(c, a, t) == income_in_session(a, t, c.amount, "PERMANENT")

\* Faulty variant of recharge_platform: the platform account is credited, not debited.
RechargePlatformIncome(c, a, t) == income_in_session(a, t, c.amount, "PERMANENT")

recharge_platform(c, a, t) ==
    deduction_in_session(PlatformKey(DEFAULT_PLATFORM_ACCOUNT_RECHARGE), a, t,
                         c.amount, "PERMANENT")

\* Faulty variant of recharge_event: balance_after counts the permanent pool only.
RechargeEventCreditsOnly(c, id, ua) ==
    [NoEvent EXCEPT !.id = id, !.event_type = "RECHARGE", !.upstream_type = "API",
                    !.upstream_tx_id = c.txid, !.direction = "INCOME",
                    !.account_id = UserKey(c.user), !.total_amount = c.amount,
                    !.credit_type = "PERMANENT", !.balance_after = ua.credits,
                    !.base_amount = c.amount, !.base_original_amount = c.amount]

recharge_event(c, id, ua) ==
    [NoEvent EXCEPT !.id = id, !.event_type = "RECHARGE", !.upstream_type = "API",
                    !.upstream_tx_id = c.txid, !.direction = "INCOME",
                    !.account_id = UserKey(c.user), !.total_amount = c.amount,
                    !.credit_type = "PERMANENT", !.balance_after = Balance(ua),
                    !.base_amount = c.amount, !.base_original_amount = c.amount]

recharge_legs(c, evid, id1) ==
    { [id |-> id1, account_id |-> UserKey(c.user), event_id |-> evid,
       tx_type |-> "RECHARGE", credit_debit |-> "CREDIT",
       change_amount |-> c.amount, credit_type |-> "PERMANENT"],
      [id |-> id1 + 1, account_id |-> PlatformKey(DEFAULT_PLATFORM_ACCOUNT_RECHARGE),
       event_id |-> evid, tx_type |-> "RECHARGE", credit_debit |-> "DEBIT",
       change_amount |-> c.amount, credit_type |-> "PERMANENT"] }

\* ---------------------------------------------------------------- reward
\* Faulty variant of reward_enter: the platform account is taken first, without
\* the user's account.
RewardPlatformFirst(c) ==
    IF check_upstream_tx_id_exists("API", c.txid)
    THEN Done(c, "DuplicateUpstreamTx", "check")
    ELSE IF c.amount <= 0 THEN Done(c, "InvalidAmount", "validate")
    ELSE [c EXCEPT !.pc = "platform"]

reward_enter(c) ==
    IF check_upstream_tx_id_exists("API", c.txid)
    THEN Done(c, "DuplicateUpstreamTx", "check")
    ELSE IF c.amount <= 0 THEN Done(c, "InvalidAmount", "validate")
    ELSE [c EXCEPT !.pc = "user"]

reward_user(c, a, t) == income_in_session(a, t, c.amount, "REWARD")

reward_platform(c, a, t) ==
    deduction_in_session(PlatformKey(DEFAULT_PLATFORM_ACCOUNT_REWARD), a, t,
                         c.amount, "REWARD")

reward_event(c, id, ua) ==
    [NoEvent EXCEPT !.id = id, !.event_type = "REWARD", !.upstream_type = "API",
                    !.upstream_tx_id = c.txid, !.direction = "INCOME",
                    !.account_id = UserKey(c.user), !.total_amount = c.amount,
                    !.credit_type = "REWARD", !.balance_after = Balance(ua),
                    !.base_amount = c.amount, !.base_original_amount = c.amount]

reward_legs(c, evid, id1) ==
    { [id |-> id1, account_id |-> UserKey(c.user), event_id |-> evid,
       tx_type |-> "REWARD", credit_debit |-> "CREDIT",
       change_amount |-> c.amount, credit_type |-> "REWARD"],
      [id |-> id1 + 1, account_id |-> PlatformKey(DEFAULT_PLATFORM_ACCOUNT_REWARD),
       event_id |-> evid, tx_type |-> "REWARD", credit_debit |-> "DEBIT",
       change_amount |-> c.amount, credit_type |-> "REWARD"] }

\* ---------------------------------------------------------------- adjustment
\* Faulty variant of adjustment_enter: the amount and the note are validated
\* before the duplicate lookup.
AdjustmentValidateFirst(c) ==
    IF c.amount = 0 THEN Done(c, "InvalidAmount", "validate")
    ELSE IF ~c.note THEN Done(c, "MissingNote", "validate")
    ELSE IF check_upstream_tx_id_exists("API", c.txid)
    THEN Done(c, "DuplicateUpstreamTx", "check")
    ELSE [c EXCEPT !.pc = "user"]

adjustment_enter(c) ==
    IF check_upstream_tx_id_exists("API", c.txid)
    THEN Done(c, "DuplicateUpstreamTx", "check")
    ELSE IF c.amount = 0 THEN Done(c, "InvalidAmount", "validate")
    ELSE IF ~c.note THEN Done(c, "MissingNote", "validate")
    ELSE [c EXCEPT !.pc = "user"]

is_income(c) == c.amount > 0

\* Faulty variant of adjustment_user: a negative adjustment is taken with the
\* tri-pool expense, which falls back across the pools.
AdjustmentUserTriPool(c, a, t) ==
    IF is_income(c)
    THEN income_in_session(a, t, Abs(c.amount), c.ctype)
    ELSE expense_in_session(a, t, Abs(c.amount))

adjustment_user(c, a, t) ==
    IF is_income(c)
    THEN income_in_session(a, t, Abs(c.amount), c.ctype)
    ELSE deduction_in_session(UserKey(c.user), a, t, Abs(c.amount), c.ctype)

\* Faulty variant of adjustment_platform: the platform account moves the same
\* way as the user's instead of mirroring it.
AdjustmentPlatformSameWay(c, a, t) ==
    IF is_income(c)
    THEN income_in_session(a, t, Abs(c.amount), c.ctype)
    ELSE deduction_in_session(PlatformKey(DEFAULT_PLATFORM_ACCOUNT_ADJUSTMENT), a, t,
                              Abs(c.amount), c.ctype)

adjustment_platform(c, a, t) ==
    IF is_income(c)
    THEN deduction_in_session(PlatformKey(DEFAULT_PLATFORM_ACCOUNT_ADJUSTMENT), a, t,
                              Abs(c.amount), c.ctype)
    ELSE income_in_session(a, t, Abs(c.amount), c.ctype)

adjustment_event(c, id, ua) ==
    [NoEvent EXCEPT !.id = id, !.event_type = "ADJUSTMENT", !.upstream_type = "API",
                    !.upstream_tx_id = c.txid,
                    !.direction = IF is_income(c) THEN "INCOME" ELSE "EXPENSE",
                    !.account_id = UserKey(c.user), !.total_amount = Abs(c.amount),
                    !.credit_type = c.ctype, !.balance_after = Balance(ua),
                    !.base_amount = Abs(c.amount), !.base_original_amount = Abs(c.amount)]

adjustment_legs(c, evid, id1) ==
    { [id |-> id1, account_id |-> UserKey(c.user), event_id |-> evid,
       tx_type |-> "ADJUSTMENT",
       credit_debit |-> IF is_income(c) THEN "CREDIT" ELSE "DEBIT",
       change_amount |-> Abs(c.amount), credit_type |-> c.ctype],
      [id |-> id1 + 1, account_id |-> PlatformKey(DEFAULT_PLATFORM_ACCOUNT_ADJUSTMENT),
       event_id |-> evid, tx_type |-> "ADJUSTMENT",
       credit_debit |-> IF is_income(c) THEN "DEBIT" ELSE "CREDIT",
       change_amount |-> Abs(c.amount), credit_type |-> c.ctype] }

\* ---------------------------------------------------------------- expense_message
\* The amounts computed before the first account is touched.
fee_platform_amount(base, pct) == PctMul(base, pct)

\* Faulty variant of fee_agent_amount: the owner is charged the agent fee too.
FeeAgentAlways(base, agent_pct, user, owner) == PctMul(base, agent_pct)

fee_agent_amount(base, agent_pct, user, owner) ==
    IF user # owner THEN PctMul(base, agent_pct) ELSE 0

\* Faulty variant of total_amount: the agent fee is left out of the total.
TotalWithoutAgentFee(base, fee_p, fee_a) == base + fee_p

total_amount(base, fee_p, fee_a) == base + fee_p + fee_a

expense_message_enter(c) ==
    IF check_upstream_tx_id_exists("EXECUTOR", c.txid)
    THEN Done(c, "DuplicateUpstreamTx", "check")
    ELSE IF c.amount < 0 THEN Done(c, "InvalidAmount", "validate")
    ELSE LET fp == fee_platform_amount(c.amount, payment_fee_platform_percentage)
             fa == fee_agent_amount(c.amount, c.agent_pct, c.user, c.owner)
         IN [c EXCEPT !.pc = "user", !.fee_platform = fp, !.fee_agent = fa,
                      !.total = total_amount(c.amount, fp, fa)]

\* Faulty variant of expense_message_user: the base amount is deducted, not the total.
ExpenseUserBase(c, a, t) == expense_in_session(a, t, c.amount)

expense_message_user(c, a, t) == expense_in_session(a, t, c.total)

\* Faulty variant of expense_message_platform: the fee always goes to the permanent pool.
ExpensePlatformPermanent(c, a, t) == income_in_session(a, t, c.fee_platform, "PERMANENT")

expense_message_platform(c, a, t) == income_in_session(a, t, c.fee_platform, c.label)

expense_message_agent(c, a, t) == income_in_session(a, t, c.fee_agent, c.label)

\* Faulty variant of expense_message_event: the event is keyed under upstream_type API.
ExpenseEventApiKey(c, id, ua) ==
    [NoEvent EXCEPT !.id = id, !.account_id = UserKey(c.user), !.event_type = "MESSAGE",
                    !.upstream_type = "API", !.upstream_tx_id = c.txid,
                    !.direction = "EXPENSE", !.agent_id = c.agent,
                    !.total_amount = c.total, !.credit_type = c.label,
                    !.balance_after = Balance(ua),
                    !.base_amount = c.amount, !.base_original_amount = c.amount,
                    !.base_llm_amount = c.amount,
                    !.fee_platform_amount = c.fee_platform,
                    !.fee_agent_amount = c.fee_agent,
                    !.fee_agent_account =
                        IF c.fee_agent > 0 THEN AgentKey(c.agent) ELSE NoAcct]

expense_message_event(c, id, ua) ==
    [NoEvent EXCEPT !.id = id, !.account_id = UserKey(c.user), !.event_type = "MESSAGE",
                    !.upstream_type = "EXECUTOR", !.upstream_tx_id = c.txid,
                    !.direction = "EXPENSE", !.agent_id = c.agent,
                    !.total_amount = c.total, !.credit_type = c.label,
                    !.balance_after = Balance(ua),
                    !.base_amount = c.amount, !.base_original_amount = c.amount,
                    !.base_llm_amount = c.amount,
                    !.fee_platform_amount = c.fee_platform,
                    !.fee_agent_amount = c.fee_agent,
                    !.fee_agent_account =
                        IF c.fee_agent > 0 THEN AgentKey(c.agent) ELSE NoAcct]

\* Faulty variant of expense_message_legs: the user's leg books the base amount,
\* not the total.
ExpenseLegsDebitBase(c, evid, id1) ==
    { [id |-> id1, account_id |-> UserKey(c.user), event_id |-> evid,
       tx_type |-> "PAY", credit_debit |-> "DEBIT",
       change_amount |-> c.amount, credit_type |-> c.label],
      [id |-> id1 + 1, account_id |-> PlatformKey(DEFAULT_PLATFORM_ACCOUNT_FEE),
       event_id |-> evid, tx_type |-> "RECEIVE_FEE_PLATFORM", credit_debit |-> "CREDIT",
       change_amount |-> c.fee_platform, credit_type |-> c.label] }
    \cup
    IF c.fee_agent > 0
    THEN { [id |-> id1 + 2, account_id |-> AgentKey(c.agent), event_id |-> evid,
            tx_type |-> "RECEIVE_FEE_AGENT", credit_debit |-> "CREDIT",
            change_amount |-> c.fee_agent, credit_type |-> c.label] }
    ELSE {}

\* Faulty variant of expense_message_legs: the agent's leg is never written.
ExpenseLegsNoAgent(c, evid, id1) ==
    { [id |-> id1, account_id |-> UserKey(c.user), event_id |-> evid,
       tx_type |-> "PAY", credit_debit |-> "DEBIT",
       change_amount |-> c.total, credit_type |-> c.label],
      [id |-> id1 + 1, account_id |-> PlatformKey(DEFAULT_PLATFORM_ACCOUNT_FEE),
       event_id |-> evid, tx_type |-> "RECEIVE_FEE_PLATFORM", credit_debit |-> "CREDIT",
       change_amount |-> c.fee_platform, credit_type |-> c.label] }

expense_message_legs(c, evid, id1) ==
    { [id |-> id1, account_id |-> UserKey(c.user), event_id |-> evid,
       tx_type |-> "PAY", credit_debit |-> "DEBIT",
       change_amount |-> c.total, credit_type |-> c.label],
      [id |-> id1 + 1, account_id |-> PlatformKey(DEFAULT_PLATFORM_ACCOUNT_FEE),
       event_id |-> evid, tx_type |-> "RECEIVE_FEE_PLATFORM", credit_debit |-> "CREDIT",
       change_amount |-> c.fee_platform, credit_type |-> c.label] }
    \cup
    IF c.fee_agent > 0
    THEN { [id |-> id1 + 2, account_id |-> AgentKey(c.agent), event_id |-> evid,
            tx_type |-> "RECEIVE_FEE_AGENT", credit_debit |-> "CREDIT",
            change_amount |-> c.fee_agent, credit_type |-> c.label] }
    ELSE {}

\* ---------------------------------------------------------------- update_daily_quota
update_daily_quota_enter(c) ==
    IF ~c.has_fq /\ ~c.has_ra THEN Done(c, "InvalidAmount", "validate")
    ELSE [c EXCEPT !.pc = "quota"]

\* Faulty variant of update_daily_quota_apply: the pair is checked only when
\* both settings are supplied, never against the stored one.
QuotaApplyChecksSuppliedOnly(c, a, t) ==
    LET row           == get_or_create_in_session(a, t)
        free_quota    == IF c.has_fq THEN c.fq ELSE row.free_quota
        refill_amount == IF c.has_ra THEN c.ra ELSE row.refill_amount
    IN IF c.has_fq /\ c.fq <= 0 THEN PrimFail("InvalidAmount")
       ELSE IF c.has_ra /\ c.ra < 0 THEN PrimFail("InvalidAmount")
       ELSE IF c.has_fq /\ c.has_ra /\ c.ra > c.fq THEN PrimFail("InvalidAmount")
       ELSE IF ~c.note THEN PrimFail("MissingNote")
       ELSE PrimOk([row EXCEPT !.free_quota = free_quota,
                               !.refill_amount = refill_amount], "PERMANENT")

\* Faulty variant of update_daily_quota_apply: the locked read goes through the
\* hourly refill.
QuotaApplyRefills(c, a, t) ==
    LET row           == Refill(get_or_create_in_session(a, t), t)
        free_quota    == IF c.has_fq THEN c.fq ELSE row.free_quota
        refill_amount == IF c.has_ra THEN c.ra ELSE row.refill_amount
    IN IF c.has_fq /\ c.fq <= 0 THEN PrimFail("InvalidAmount")
       ELSE IF c.has_ra /\ c.ra < 0 THEN PrimFail("InvalidAmount")
       ELSE IF refill_amount > free_quota THEN PrimFail("InvalidAmount")
       ELSE IF ~c.note THEN PrimFail("MissingNote")
       ELSE PrimOk([row EXCEPT !.free_quota = free_quota,
                               !.refill_amount = refill_amount], "PERMANENT")

\* From the locked read to the UPDATE of the two settings.
update_daily_quota_apply(c, a, t) ==
    LET row           == get_or_create_in_session(a, t)
        free_quota    == IF c.has_fq THEN c.fq ELSE row.free_quota
        refill_amount == IF c.has_ra THEN c.ra ELSE row.refill_amount
    IN IF c.has_fq /\ c.fq <= 0 THEN PrimFail("InvalidAmount")
       ELSE IF c.has_ra /\ c.ra < 0 THEN PrimFail("InvalidAmount")
       ELSE IF refill_amount > free_quota THEN PrimFail("InvalidAmount")
       ELSE IF ~c.note THEN PrimFail("MissingNote")
       ELSE PrimOk([row EXCEPT !.free_quota = free_quota,
                               !.refill_amount = refill_amount], "PERMANENT")


\* ---------------------------------------------------------------- dispatch
UserPrim(c, a, t) ==
    CASE c.op = "recharge"        -> recharge_user(c, a, t)
      [] c.op = "reward"          -> reward_user(c, a, t)
      [] c.op = "adjustment"      -> adjustment_user(c, a, t)
      [] c.op = "expense_message" -> expense_message_user(c, a, t)

PlatformAcct(c) ==
    CASE c.op = "recharge"        -> PlatformKey(DEFAULT_PLATFORM_ACCOUNT_RECHARGE)
      [] c.op = "reward"          -> PlatformKey(DEFAULT_PLATFORM_ACCOUNT_REWARD)
      [] c.op = "adjustment"      -> PlatformKey(DEFAULT_PLATFORM_ACCOUNT_ADJUSTMENT)
      [] c.op = "expense_message" -> PlatformKey(DEFAULT_PLATFORM_ACCOUNT_FEE)

PlatformPrim(c, a, t) ==
    CASE c.op = "recharge"        -> recharge_platform(c, a, t)
      [] c.op = "reward"          -> reward_platform(c, a, t)
      [] c.op = "adjustment"      -> adjustment_platform(c, a, t)
      [] c.op = "expense_message" -> expense_message_platform(c, a, t)

EventOf(c, id, ua) ==
    CASE c.op = "recharge"        -> recharge_event(c, id, ua)
      [] c.op = "reward"          -> reward_event(c, id, ua)
      [] c.op = "adjustment"      -> adjustment_event(c, id, ua)
      [] c.op = "expense_message" -> expense_message_event(c, id, ua)

LegsOf(c, evid, id1) ==
    CASE c.op = "recharge"        -> recharge_legs(c, evid, id1)
      [] c.op = "reward"          -> reward_legs(c, evid, id1)
      [] c.op = "adjustment"      -> adjustment_legs(c, evid, id1)
      [] c.op = "expense_message" -> expense_message_legs(c, evid, id1)
      [] OTHER                    -> {}

SameUpstream(e1, e2) ==
    e1.upstream_type = e2.upstream_type /\ e1.upstream_tx_id = e2.upstream_tx_id

\* Faulty variant of UniqueIndexRejects: the events table has no unique index.
UniqueIndexAbsent(ev) == FALSE

\* The unique index on (upstream_type, upstream_tx_id): an insert is rejected
\* when a committed row has the key, and waits while another transaction's
\* uncommitted row has it.
UniqueIndexRejects(ev) == \E e \in events : SameUpstream(e, ev)

UniqueIndexWaits(p, ev) ==
    \E q \in Procs \ {p} :
        procs[q].pc = "commit" /\ procs[q].op # "update_daily_quota"
        /\ SameUpstream(procs[q].ev, ev)

\* session.flush() of the event row.
Flush(p, c) ==
    IF UniqueIndexRejects(c.ev) THEN Done(c, "DuplicateUpstreamTx", "insert")
    ELSE IF UniqueIndexWaits(p, c.ev) THEN [c EXCEPT !.pc = "flush"]
    ELSE [c EXCEPT !.pc = "commit"]

\* ---------------------------------------------------------------- query layer
MaxLimit == 2       \* largest page size a listing is asked for

\* cursor = None
NoCursor == 0

\* The rows of CreditEventTable a listing selects, before cursor and limit.
user_events_matching(u, direction, event_type) ==
    {e \in events : /\ e.account_id = UserKey(u)
                    /\ e.direction = direction
                    /\ (event_type # "ANY" => e.event_type = event_type)}

agent_fee_events_matching(a) ==
    {e \in events : e.fee_agent_account = AgentKey(a) /\ e.fee_agent_amount > 0}

\* ORDER BY id DESC
RECURSIVE DescIds(_)
DescIds(S) ==
    IF S = {} THEN <<>>
    ELSE LET m == CHOOSE x \in S : \A y \in S : y <= x
         IN <<m>> \o DescIds(S \ {m})

Take(seq, n) == SubSeq(seq, 1, Min(n, Len(seq)))

EmptyPage == [events |-> <<>>, next_cursor |-> NoCursor, has_more |-> FALSE,
              error |-> "none"]

\* Faulty variant of Page: the cursor row itself is selected again (id <= cursor).
PageCursorInclusive(M, cursor, limit) ==
    LET sel  == {i \in {e.id : e \in M} : cursor # NoCursor => i <= cursor}
        events_data      == Take(DescIds(sel), limit + 1)
        events_to_return == Take(events_data, limit)
    IN [events      |-> events_to_return,
        next_cursor |-> IF Len(events_to_return) > 0
                        THEN events_to_return[Len(events_to_return)] ELSE NoCursor,
        has_more    |-> Len(events_data) > limit,
        error       |-> "none"]

\* Faulty variant of Page: has_more is computed from a fetch of limit rows.
PageHasMoreAtLimit(M, cursor, limit) ==
    LET sel  == {i \in {e.id : e \in M} : cursor # NoCursor => i < cursor}
        events_data      == Take(DescIds(sel), limit + 1)
        events_to_return == Take(events_data, limit)
    IN [events      |-> events_to_return,
        next_cursor |-> IF Len(events_to_return) > 0
                        THEN events_to_return[Len(events_to_return)] ELSE NoCursor,
        has_more    |-> Len(events_data) >= limit,
        error       |-> "none"]

\* Cursor filter id < cursor, LIMIT limit + 1, has_more, the slice to limit and
\* next_cursor = the id of the last event returned.  A page lists event ids.
Page(M, cursor, limit) ==
    LET sel  == {i \in {e.id : e \in M} : cursor # NoCursor => i < cursor}
        events_data      == Take(DescIds(sel), limit + 1)
        events_to_return == Take(events_data, limit)
    IN [events      |-> events_to_return,
        next_cursor |-> IF Len(events_to_return) > 0
                        THEN events_to_return[Len(events_to_return)] ELSE NoCursor,
        has_more    |-> Len(events_data) > limit,
        error       |-> "none"]

\* CreditAccount.get_in_session: the committed row, None when there is none.
get_in_session(k) == accounts[k].exists

\* Faulty variant of list_credit_events_by_user: a missing account is an error.
ListUserRaisesNotFound(u, direction, cursor, limit, event_type) ==
    IF ~get_in_session(UserKey(u)) THEN [EmptyPage EXCEPT !.error = "AccountNotFound"]
    ELSE Page(user_events_matching(u, direction, event_type), cursor, limit)

list_credit_events_by_user(u, direction, cursor, limit, event_type) ==
    IF ~get_in_session(UserKey(u)) THEN EmptyPage
    ELSE Page(user_events_matching(u, direction, event_type), cursor, limit)

list_fee_events_by_agent(a, cursor, limit) ==
    IF ~get_in_session(AgentKey(a)) THEN EmptyPage
    ELSE Page(agent_fee_events_matching(a), cursor, limit)

\* The rows the lookup's statement selects, by upstream_tx_id alone;
\* session.scalar() returns the first of them, and the call fails with NotFound
\* (404) when there is none.
fetch_credit_event_by_upstream_tx_id(upstream_tx_id) ==
    {e \in events : e.upstream_tx_id = upstream_tx_id}

\* A client between listings.
NoListing ==
    [pc |-> "idle", kind |-> "none", owner |-> "NONE", direction |-> "NONE",
     event_type |-> "ANY", limit |-> 0, cursor |-> NoCursor, has_more |-> FALSE,
     seen |-> <<>>, first |-> {}, last |-> {}, error |-> "none"]

\* ---------------------------------------------------------------- inputs
\* The identifiers being alike, p1 submits T1 and p2 either; p1 calls for U1,
\* whose account the seeded ledgers hold, and p2 for either user.
TxIdsOf(p) == IF p = "p1" THEN {"T1"} ELSE TxIds
UsersOf(p) == IF p = "p1" THEN {"U1"} ELSE Users
RechargeAmounts == {0, MaxAmount}
AdjustAmounts   == {0 - MaxAmount, 0, MaxAmount}
AgentPcts       == {0, 1}
\* expense_message's <<base_llm_amount, agent_fee_percentage, owner is the user>>:
\* a base of MaxBase credits under every percentage and owner, a zero and a
\* negative base under each percentage for another user's agent.
ExpenseArgs ==
    {<<MaxBase * PctDen, pct, self>> : pct \in AgentPcts, self \in BOOLEAN}
    \cup {<<0, pct, FALSE>> : pct \in AgentPcts}
    \cup {<<0 - PctDen, 1, FALSE>>}
\* update_daily_quota's optional free_quota and refill_amount, each as
\* <<supplied, value>>, and whether a note is given.
NotGiven == <<FALSE, 0>>
Given(v) == <<TRUE, v>>
QuotaArgs ==
    { <<NotGiven, NotGiven, TRUE>>, <<Given(0), NotGiven, TRUE>>,
      <<Given(MaxQuota), NotGiven, TRUE>>,
      <<NotGiven, Given(0 - 1), TRUE>>, <<NotGiven, Given(MaxQuota), TRUE>>,
      <<Given(MaxQuota), Given(MaxQuota), TRUE>>,
      <<Given(MaxQuota), Given(MaxQuota + 1), TRUE>>,
      <<Given(MaxQuota), Given(MaxQuota), FALSE>> }

\* ---------------------------------------------------------------- initial ledgers
\* The store starts empty, or as three calls made at time 0 leave it:
\* adjustment(U1, FREE, f, "S1", note), reward(U1, r, "S2"), recharge(U1, c, "S3")
\* and, when fq > 0, update_daily_quota(U1, fq, ra, note); a seed is <<f, r, c, fq, ra>>.
SeedPools == {<<1, 2, 3, 0, 0>>, <<1, 2, 3, 4, 2>>}

SeedCall(op, ct, amount, txid) ==
    [Idle EXCEPT !.op = op, !.user = "U1", !.ctype = ct, !.amount = amount,
                 !.utype = "API", !.txid = txid, !.note = TRUE]

SeedUser(s, n) ==
    LET a1 == AddPool([Zeroed(0) EXCEPT !.free_quota = s[4], !.refill_amount = s[5]],
                      "FREE", s[1])
        a2 == AddPool(a1, "REWARD", s[2])
        a3 == AddPool(a2, "PERMANENT", s[3])
    IN CASE n = 1 -> a1 [] n = 2 -> a2 [] n = 3 -> a3

SeedAccounts(s) ==
    [k \in AcctKeys |->
        CASE k = UserKey("U1") -> SeedUser(s, 3)
          [] k = PlatformKey(DEFAULT_PLATFORM_ACCOUNT_ADJUSTMENT) ->
                 AddPool(Zeroed(0), "FREE", 0 - s[1])
          [] k = PlatformKey(DEFAULT_PLATFORM_ACCOUNT_REWARD) ->
                 AddPool(Zeroed(0), "REWARD", 0 - s[2])
          [] k = PlatformKey(DEFAULT_PLATFORM_ACCOUNT_RECHARGE) ->
                 AddPool(Zeroed(0), "PERMANENT", 0 - s[3])
          [] OTHER -> Absent]

SeedEvents(s) ==
    { adjustment_event(SeedCall("adjustment", "FREE", s[1], "S1"), 1, SeedUser(s, 1)),
      reward_event(SeedCall("reward", "REWARD", s[2], "S2"), 4, SeedUser(s, 2)),
      recharge_event(SeedCall("recharge", "PERMANENT", s[3], "S3"), 7, SeedUser(s, 3)) }

SeedLegs(s) ==
    adjustment_legs(SeedCall("adjustment", "FREE", s[1], "S1"), 1, 2)
    \cup reward_legs(SeedCall("reward", "REWARD", s[2], "S2"), 4, 5)
    \cup recharge_legs(SeedCall("recharge", "PERMANENT", s[3], "S3"), 7, 8)

\* ---------------------------------------------------------------- actions
InitEmpty ==
    /\ accounts = [k \in AcctKeys |-> Absent]
    /\ events = {}
    /\ legs = {}
    /\ nextId = 1

InitSeededWith(s) ==
    /\ accounts = SeedAccounts(s)
    /\ events = SeedEvents(s)
    /\ legs = SeedLegs(s)
    /\ nextId = 10

InitSeeded == \E s \in SeedPools : InitSeededWith(s)

\* The platform fee is config: 1/PctDen, or 0 on the first seeded ledger.
Init ==
    /\ \/ InitEmpty /\ payment_fee_platform_percentage = 1
       \/ InitSeeded /\ payment_fee_platform_percentage = 1
       \/ InitSeededWith(<<1, 2, 3, 0, 0>>) /\ payment_fee_platform_percentage = 0
    /\ now = 0
    /\ procs = [p \in Procs |-> Idle]
    /\ lister = NoListing

\* Each caller makes one call; the callers being alike, p2 starts after p1.
CanStart(p) ==
    /\ procs[p].pc = "idle"
    /\ p = "p2" => procs["p1"].pc # "idle"

Enter(p, c) ==
    /\ procs' = [procs EXCEPT ![p] = c]
    /\ UNCHANGED <<accounts, events, legs, nextId, now, payment_fee_platform_percentage,
                   lister>>

recharge(p) ==
    /\ CanStart(p)
    /\ \E u \in UsersOf(p), amount \in RechargeAmounts, txid \in TxIdsOf(p) :
          Enter(p, recharge_enter([Idle EXCEPT !.op = "recharge", !.user = u,
                                               !.amount = amount, !.utype = "API",
                                               !.txid = txid]))

reward(p) ==
    /\ CanStart(p)
    /\ \E u \in UsersOf(p), amount \in RechargeAmounts, txid \in TxIdsOf(p) :
          Enter(p, reward_enter([Idle EXCEPT !.op = "reward", !.user = u,
                                             !.amount = amount, !.utype = "API",
                                             !.txid = txid]))

adjustment(p) ==
    /\ CanStart(p)
    /\ \E u \in UsersOf(p), ct \in CreditType, amount \in AdjustAmounts, txid \in TxIdsOf(p),
          note \in BOOLEAN :
          Enter(p, adjustment_enter([Idle EXCEPT !.op = "adjustment", !.user = u,
                                                 !.ctype = ct, !.amount = amount,
                                                 !.utype = "API", !.txid = txid,
                                                 !.note = note]))

expense_message(p) ==
    /\ CanStart(p)
    /\ \E a \in Agents, u \in UsersOf(p), txid \in TxIdsOf(p), x \in ExpenseArgs :
          Enter(p, expense_message_enter(
                       [Idle EXCEPT !.op = "expense_message", !.agent = a, !.user = u,
                                    !.utype = "EXECUTOR", !.txid = txid,
                                    !.amount = x[1], !.agent_pct = x[2],
                                    !.owner = IF x[3] THEN u
                                              ELSE CHOOSE o \in Users : o # u]))

update_daily_quota(p) ==
    /\ CanStart(p)
    /\ \E u \in UsersOf(p), q \in QuotaArgs :
          Enter(p, update_daily_quota_enter(
                       [Idle EXCEPT !.op = "update_daily_quota", !.user = u,
                                    !.has_fq = q[1][1], !.fq = q[1][2],
                                    !.has_ra = q[2][1], !.ra = q[2][2],
                                    !.note = q[3]]))

SetProc(p, c) ==
    /\ procs' = [procs EXCEPT ![p] = c]
    /\ UNCHANGED <<accounts, events, legs, nextId, now,
                   payment_fee_platform_percentage, lister>>

\* Faulty variant of UserStep: the user's account is committed as soon as it
\* is updated, before the platform account and the event.
UserStepCommitsEarly(p) ==
    LET c == procs[p]
        k == UserKey(c.user)
        r == UserPrim(c, View(c, k), now)
    IN /\ c.pc = "user"
       /\ LockFree(p, k)
       /\ procs' = [procs EXCEPT ![p] =
                       IF r.ok
                       THEN [c EXCEPT !.locks = @ \cup {k}, !.writes[k] = r.acct,
                                      !.label = r.label,
                                      !.pre = Refill(get_or_create_in_session(View(c, k), now), now),
                                      !.pc = "platform"]
                       ELSE Done(c, r.err, "user")]
       /\ accounts' = IF r.ok THEN [accounts EXCEPT ![k] = r.acct] ELSE accounts
       /\ UNCHANGED <<events, legs, nextId, now, payment_fee_platform_percentage, lister>>

\* Faulty variant of UserStep: the user's row is read and written without
\* being locked.
UserStepNoLock(p) ==
    LET c == procs[p]
        k == UserKey(c.user)
        r == UserPrim(c, accounts[k], now)
    IN /\ c.pc = "user"
       /\ SetProc(p, IF r.ok
                     THEN [c EXCEPT !.writes[k] = r.acct, !.label = r.label,
                                    !.pre = Refill(get_or_create_in_session(accounts[k], now), now),
                                    !.pc = "platform"]
                     ELSE Done(c, r.err, "user"))

\* The first primitive of an orchestrator: the user's account.
UserStep(p) ==
    LET c == procs[p]
        k == UserKey(c.user)
        r == UserPrim(c, View(c, k), now)
    IN /\ c.pc = "user"
       /\ LockFree(p, k)
       /\ SetProc(p, IF r.ok
                     THEN [c EXCEPT !.locks = @ \cup {k}, !.writes[k] = r.acct,
                                    !.label = r.label,
                                    !.pre = Refill(get_or_create_in_session(View(c, k), now), now),
                                    !.pc = "platform"]
                     ELSE Done(c, r.err, "user"))

\* The second primitive: the platform account.
PlatformStep(p) ==
    LET c == procs[p]
        k == PlatformAcct(c)
        r == PlatformPrim(c, View(c, k), now)
    IN /\ c.pc = "platform"
       /\ LockFree(p, k)
       /\ SetProc(p, IF r.ok
                     THEN [c EXCEPT !.locks = @ \cup {k}, !.writes[k] = r.acct,
                                    !.pc = IF c.op = "expense_message" /\ c.fee_agent > 0
                                           THEN "agent" ELSE "event"]
                     ELSE Done(c, r.err, "platform"))

\* expense_message's third primitive: the agent's account.
AgentStep(p) ==
    LET c == procs[p]
        k == AgentKey(c.agent)
        r == expense_message_agent(c, View(c, k), now)
    IN /\ c.pc = "agent"
       /\ LockFree(p, k)
       /\ SetProc(p, IF r.ok
                     THEN [c EXCEPT !.locks = @ \cup {k}, !.writes[k] = r.acct,
                                    !.pc = "event"]
                     ELSE Done(c, r.err, "agent"))

\* event_id = XID(), the event row is built and flushed.
EventStep(p) ==
    LET c  == procs[p]
        ev == EventOf(c, nextId, c.writes[UserKey(c.user)])
    IN /\ c.pc = "event"
       /\ procs' = [procs EXCEPT ![p] = Flush(p, [c EXCEPT !.ev = ev])]
       /\ nextId' = nextId + 1
       /\ UNCHANGED <<accounts, events, legs, now, payment_fee_platform_percentage,
                      lister>>

\* A flush that waited on the unique index goes on.
FlushStep(p) ==
    LET c == procs[p]
    IN /\ c.pc = "flush"
       /\ ~UniqueIndexWaits(p, c.ev)
       /\ SetProc(p, Flush(p, c))

\* update_daily_quota: the locked read, the checks and the UPDATE.
QuotaStep(p) ==
    LET c == procs[p]
        k == UserKey(c.user)
        r == update_daily_quota_apply(c, View(c, k), now)
    IN /\ c.pc = "quota"
       /\ LockFree(p, k)
       /\ SetProc(p, IF r.ok
                     THEN [c EXCEPT !.locks = @ \cup {k}, !.writes[k] = r.acct,
                                    !.pc = "commit"]
                     ELSE Done(c, r.err, "quota"))

\* The legs are added and the transaction commits: its writes become the
\* committed rows and its locks are released.
Commit(p) ==
    LET c     == procs[p]
        isOp  == c.op # "update_daily_quota"
        newLegs == IF isOp THEN LegsOf(c, c.ev.id, nextId) ELSE {}
    IN /\ c.pc = "commit"
       /\ accounts' = [k \in AcctKeys |-> IF k \in c.locks THEN c.writes[k] ELSE accounts[k]]
       /\ events' = IF isOp THEN events \cup {c.ev} ELSE events
       /\ legs' = legs \cup newLegs
       /\ nextId' = nextId + Cardinality(newLegs)
       /\ procs' = [procs EXCEPT ![p] = Done(c, "ok", "commit")]
       /\ UNCHANGED <<now, payment_fee_platform_percentage, lister>>

\* A call is cancelled at a suspension point: its transaction is rolled back.
Cancel(p) ==
    /\ procs[p].pc \in InTx
    /\ SetProc(p, Done(procs[p], "Cancelled", "cancel"))

Tick ==
    /\ now < MaxClock
    /\ now' = now + 1
    /\ UNCHANGED <<accounts, events, legs, nextId,
                   payment_fee_platform_percentage, procs, lister>>

Next ==
    \/ \E p \in Procs : recharge(p)
    \/ \E p \in Procs : reward(p)
    \/ \E p \in Procs : adjustment(p)
    \/ \E p \in Procs : expense_message(p)
    \/ \E p \in Procs : update_daily_quota(p)
    \/ \E p \in Procs : UserStep(p)
    \/ \E p \in Procs : PlatformStep(p)
    \/ \E p \in Procs : AgentStep(p)
    \/ \E p \in Procs : EventStep(p)
    \/ \E p \in Procs : FlushStep(p)
    \/ \E p \in Procs : QuotaStep(p)
    \/ \E p \in Procs : Commit(p)
    \/ \E p \in Procs : Cancel(p)
    \/ Tick

Spec == Init /\ [][Next]_vars

\* ---------------------------------------------------------------- listings
\* A client pages through a listing: the first call carries no cursor, each
\* later call the next_cursor of the page before, until has_more is false.
ListEventTypes == {"ANY", "RECHARGE"}

\* The client after a call returned r; first and last are the ids of the
\* matching events committed at its first and at this call.
Listed(r, first, last) ==
    [lister EXCEPT !.pc = IF r.has_more THEN "paging" ELSE "done",
                   !.cursor = r.next_cursor, !.has_more = r.has_more,
                   !.seen = @ \o r.events, !.first = first, !.last = last,
                   !.error = r.error]

MatchingIds(kind, owner, direction, et) ==
    IF kind = "user" THEN {e.id : e \in user_events_matching(owner, direction, et)}
    ELSE {e.id : e \in agent_fee_events_matching(owner)}

ListUserFirst ==
    /\ lister.pc = "idle"
    /\ \E u \in Users, direction \in {"INCOME", "EXPENSE"}, et \in ListEventTypes,
          limit \in 1..MaxLimit :
          lister' = [Listed(list_credit_events_by_user(u, direction, NoCursor, limit, et),
                            MatchingIds("user", u, direction, et),
                            MatchingIds("user", u, direction, et))
                        EXCEPT !.kind = "user", !.owner = u, !.direction = direction,
                               !.event_type = et, !.limit = limit]
    /\ UNCHANGED <<accounts, events, legs, nextId, now,
                   payment_fee_platform_percentage, procs>>

ListAgentFirst ==
    /\ lister.pc = "idle"
    /\ \E a \in Agents, limit \in 1..MaxLimit :
          lister' = [Listed(list_fee_events_by_agent(a, NoCursor, limit),
                            MatchingIds("agent", a, "NONE", "ANY"),
                            MatchingIds("agent", a, "NONE", "ANY"))
                        EXCEPT !.kind = "agent", !.owner = a, !.limit = limit]
    /\ UNCHANGED <<accounts, events, legs, nextId, now,
                   payment_fee_platform_percentage, procs>>

ListNext ==
    /\ lister.pc = "paging"
    /\ lister' = Listed(IF lister.kind = "user"
                        THEN list_credit_events_by_user(lister.owner, lister.direction,
                                                        lister.cursor, lister.limit,
                                                        lister.event_type)
                        ELSE list_fee_events_by_agent(lister.owner, lister.cursor,
                                                      lister.limit),
                        lister.first,
                        MatchingIds(lister.kind, lister.owner, lister.direction,
                                    lister.event_type))
    /\ UNCHANGED <<accounts, events, legs, nextId, now,
                   payment_fee_platform_percentage, procs>>

\* The listings beside the two callers, who recharge, reward and spend on a
\* ledger that holds U1's three earlier events.
InitList ==
    /\ InitSeededWith(<<1, 2, 3, 0, 0>>)
    /\ payment_fee_platform_percentage = 1
    /\ now = 0
    /\ procs = [p \in Procs |-> Idle]
    /\ lister = NoListing

NextList ==
    \/ \E p \in Procs : recharge(p)
    \/ \E p \in Procs : reward(p)
    \/ \E p \in Procs : expense_message(p)
    \/ \E p \in Procs : UserStep(p)
    \/ \E p \in Procs : PlatformStep(p)
    \/ \E p \in Procs : AgentStep(p)
    \/ \E p \in Procs : EventStep(p)
    \/ \E p \in Procs : FlushStep(p)
    \/ \E p \in Procs : Commit(p)
    \/ \E p \in Procs : Cancel(p)
    \/ ListUserFirst
    \/ ListAgentFirst
    \/ ListNext

SpecList == InitList /\ [][NextList]_vars

\* ---------------------------------------------------------------- two funded users
\* The ledger of InitList after a fourth call, recharge(U2, 4, "S4"): both
\* users can spend, so their expenses meet on the FEE and the agent's account.
SeedCallU2 ==
    [Idle EXCEPT !.op = "recharge", !.user = "U2", !.amount = 4,
                 !.utype = "API", !.txid = "S4"]

InitOrder ==
    /\ accounts = [SeedAccounts(<<1, 2, 3, 0, 0>>) EXCEPT
                      ![UserKey("U2")] = AddPool(Zeroed(0), "PERMANENT", 4),
                      ![PlatformKey(DEFAULT_PLATFORM_ACCOUNT_RECHARGE)] =
                          AddPool(@, "PERMANENT", 0 - 4)]
    /\ events = SeedEvents(<<1, 2, 3, 0, 0>>)
                 \cup {recharge_event(SeedCallU2, 10, AddPool(Zeroed(0), "PERMANENT", 4))}
    /\ legs = SeedLegs(<<1, 2, 3, 0, 0>>) \cup recharge_legs(SeedCallU2, 10, 11)
    /\ nextId = 13
    /\ payment_fee_platform_percentage = 1
    /\ now = 0
    /\ procs = [p \in Procs |-> Idle]
    /\ lister = NoListing

SpecOrder == InitOrder /\ [][Next]_vars

\* ---------------------------------------------------------------- scheduling
\* The event loop resumes a call whose round trip can complete, and the store
\* grants a released row lock to the call waiting for it; a cancellation is the
\* caller's choice and is not owed.
Fairness ==
    \A p \in Procs :
        /\ WF_vars(UserStep(p)) /\ WF_vars(PlatformStep(p)) /\ WF_vars(AgentStep(p))
        /\ WF_vars(EventStep(p)) /\ WF_vars(FlushStep(p)) /\ WF_vars(QuotaStep(p))
        /\ WF_vars(Commit(p))

SpecFair == InitList /\ [][Next]_vars /\ Fairness


\* ================================================================ properties
RECURSIVE SumAmounts(_)
SumAmounts(S) ==
    IF S = {} THEN 0
    ELSE LET l == CHOOSE x \in S : TRUE IN l.change_amount + SumAmounts(S \ {l})

LegsOfEvent(e) == {l \in legs : l.event_id = e.id}

LegSum(e, cd, ct) ==
    SumAmounts({l \in LegsOfEvent(e) : l.credit_debit = cd /\ l.credit_type = ct})

UserKeys == {UserKey(u) : u \in Users}

EventsWithKey(E, utype, txid) ==
    {e \in E : e.upstream_type = utype /\ e.upstream_tx_id = txid}

\* The caller's call finishes in this step / commits in this step.
Finishes(p) == procs[p].pc \in InTx /\ procs'[p].pc = "done"
Commits(p)  == procs[p].pc = "commit" /\ procs'[p].pc = "done" /\ procs'[p].result = "ok"
CommitsOp(p, op) == Commits(p) /\ procs[p].op = op

\* C1: double-entry conservation: in every reachable state, for every committed
\* event and every credit_type, the CREDIT legs of the event sum to the same
\* amount as its DEBIT legs (for expense_message: the PAY debit of total_amount
\* against the RECEIVE_FEE_PLATFORM and RECEIVE_FEE_AGENT credits).
C1_DoubleEntryConservation ==
    \A e \in events : \A ct \in CreditType :
        LegSum(e, "CREDIT", ct) = LegSum(e, "DEBIT", ct)

C4_SequentialDuplicate ==
    [][ \A p \in Procs :
            (/\ procs[p].pc = "idle" /\ procs'[p].pc # "idle"
             /\ procs'[p].utype # "NONE"
             /\ EventsWithKey(events, procs'[p].utype, procs'[p].txid) # {})
            => /\ procs'[p].pc = "done"
               /\ procs'[p].result = "DuplicateUpstreamTx"
               /\ procs'[p].failedAt = "check"
               /\ UNCHANGED <<accounts, events, legs>>
      ]_vars

C4_Witness ==
    \E p \in Procs :
        /\ procs[p].pc = "done" /\ procs[p].result = "DuplicateUpstreamTx"
        /\ procs[p].failedAt = "check"
        /\ Cardinality(EventsWithKey(events, procs[p].utype, procs[p].txid)) = 1


OtherPools(ct) == CreditType \ {ct}

\* C5: income grants succeed against any platform balance: a recharge (pool
\* PERMANENT, platform RECHARGE) or reward (pool REWARD, platform REWARD) with
\* amount > 0 is never refused at its user or platform step, whatever the
\* platform balance; when it commits, the user's pool has grown by amount, the
\* platform account's same pool has shrunk by amount (possibly below zero),
\* and one INCOME event of total_amount = amount with one CREDIT leg on the
\* user and one DEBIT leg on the platform account has been recorded.
C5_IncomeGrant ==
    [][ \A p \in Procs :
          LET c  == procs[p]
              ct == IF c.op = "recharge" THEN "PERMANENT" ELSE "REWARD"
              u  == UserKey(c.user)
              pk == IF c.op = "recharge"
                    THEN PlatformKey(DEFAULT_PLATFORM_ACCOUNT_RECHARGE)
                    ELSE PlatformKey(DEFAULT_PLATFORM_ACCOUNT_REWARD)
          IN c.op \in {"recharge", "reward"} =>
             /\ (c.pc \in {"user", "platform"} /\ procs'[p].pc = "done")
                => procs'[p].result = "Cancelled"
             /\ Commits(p) =>
                /\ c.amount > 0
                /\ Pool(accounts'[u], ct) = Pool(accounts[u], ct) + c.amount
                /\ Pool(accounts'[pk], ct) = Pool(accounts[pk], ct) - c.amount
                /\ \E e \in events' \ events :
                      /\ events' = events \cup {e}
                      /\ e.direction = "INCOME" /\ e.total_amount = c.amount
                      /\ e.credit_type = ct /\ e.account_id = u
                      /\ \E lu, lp \in legs' \ legs :
                            /\ legs' = legs \cup {lu, lp}
                            /\ lu.account_id = u /\ lu.credit_debit = "CREDIT"
                            /\ lp.account_id = pk /\ lp.credit_debit = "DEBIT"
                            /\ \A l \in {lu, lp} :
                                  /\ l.change_amount = c.amount
                                  /\ l.credit_type = ct /\ l.event_id = e.id
      ]_vars

\* A recharge granted from the empty store: the RECHARGE account was seeded at
\* zero and now owes the amount.
C5_Witness ==
    /\ accounts[PlatformKey(DEFAULT_PLATFORM_ACCOUNT_RECHARGE)].credits = 0 - MaxAmount
    /\ \E e \in events : e.event_type = "RECHARGE" /\ e.upstream_tx_id \in TxIds
                         /\ accounts[e.account_id].credits = MaxAmount

\* C6: tri-pool deduction: when an expense_message commits a deduction of
\* total t from pools (free f, reward r, permanent c) as they stand after any
\* due refill, then t <= f + r + c, the pools are consumed free first, then
\* reward, then permanent, and the event's credit_type is the deepest pool
\* needed: FREE if t <= f, REWARD if f < t <= f + r, PERMANENT otherwise.
C6_TriPool ==
    [][ \A p \in Procs :
          LET c     == procs[p]
              u     == UserKey(c.user)
              f     == c.pre.free_credits
              r     == c.pre.reward_credits
              cr    == c.pre.credits
              t     == c.ev.total_amount
              fromF == Min(t, f)
              fromR == Min(t - fromF, r)
          IN CommitsOp(p, "expense_message") =>
             /\ t <= f + r + cr
             /\ accounts'[u].free_credits = f - fromF
             /\ accounts'[u].reward_credits = r - fromR
             /\ accounts'[u].credits = cr - (t - fromF - fromR)
             /\ c.ev \in events'
             /\ c.ev.credit_type = (IF t <= f THEN "FREE"
                                    ELSE IF t <= f + r THEN "REWARD" ELSE "PERMANENT")
      ]_vars

\* An expense of 4 has drained free 1 and reward 2 and taken 1 of permanent 3.
C6_Witness ==
    \E e \in events :
        /\ e.event_type = "MESSAGE" /\ e.credit_type = "PERMANENT" /\ e.total_amount = 4
        /\ accounts[e.account_id].free_credits = 0
        /\ accounts[e.account_id].reward_credits = 0
        /\ accounts[e.account_id].credits = 2

\* C7: expense amounts: a committed MESSAGE event has base_amount =
\* base_original_amount = base_llm_amount, fee_platform_amount = base_amount x
\* platform fee percentage, fee_agent_amount = base_amount x agent fee
\* percentage when the user is not the agent's owner, total_amount the sum of
\* the three, and the user's three-pool sum (as it stands after any due refill)
\* has decreased by exactly total_amount.
C7_ExpenseAmounts ==
    [][ \A p \in Procs :
          LET c == procs[p]
              e == c.ev
          IN CommitsOp(p, "expense_message") =>
             /\ e \in events' /\ e.event_type = "MESSAGE"
             /\ e.base_amount = c.amount /\ e.base_original_amount = c.amount
             /\ e.base_llm_amount = c.amount
             /\ e.fee_platform_amount * PctDen = e.base_amount * payment_fee_platform_percentage
             /\ (c.user # c.owner) => (e.fee_agent_amount * PctDen = e.base_amount * c.agent_pct)
             /\ e.total_amount = e.base_amount + e.fee_platform_amount + e.fee_agent_amount
             /\ Balance(accounts'[UserKey(c.user)]) = Balance(c.pre) - e.total_amount
      ]_vars

C7_Witness ==
    \E e \in events :
        /\ e.event_type = "MESSAGE" /\ e.base_amount = 2 /\ e.fee_platform_amount = 1
        /\ e.fee_agent_amount = 1 /\ e.total_amount = 4
        /\ e.balance_after = Balance(accounts[e.account_id])

\* C8: self-agent fee suppression: an expense_message whose user is the
\* agent's owner never touches the agent's account; when it commits,
\* fee_agent_amount is 0 whatever the agent fee percentage, total_amount =
\* base_amount + fee_platform_amount, fee_agent_account is null, no
\* RECEIVE_FEE_AGENT leg is written and the agent's account is neither created
\* nor changed.
C8_SelfAgent ==
    [][ \A p \in Procs :
          LET c == procs'[p]
              b == procs[p]
          IN /\ (c.op = "expense_message" /\ c.user = c.owner /\ c.pc \in InTx)
                => AgentKey(c.agent) \notin c.locks /\ c.fee_agent = 0
             /\ (CommitsOp(p, "expense_message") /\ b.user = b.owner) =>
                /\ b.ev \in events'
                /\ b.ev.fee_agent_amount = 0
                /\ b.ev.total_amount = b.ev.base_amount + b.ev.fee_platform_amount
                /\ b.ev.fee_agent_account = NoAcct
                /\ \A l \in legs' \ legs : l.tx_type # "RECEIVE_FEE_AGENT"
                                          /\ l.account_id # AgentKey(b.agent)
                /\ accounts'[AgentKey(b.agent)] = accounts[AgentKey(b.agent)]
      ]_vars

\* An owner's expense with a non-zero agent fee percentage is about to commit:
\* the user and the platform are charged and the event is inserted.
C8_Witness ==
    \E p \in Procs :
        /\ procs[p].pc = "commit" /\ procs[p].op = "expense_message"
        /\ procs[p].user = procs[p].owner /\ procs[p].agent_pct > 0
        /\ procs[p].amount > 0 /\ procs[p].ev.total_amount = 3
        /\ ~accounts[AgentKey(procs[p].agent)].exists

\* C9: fee routing: when an expense_message labelled T commits, the platform
\* FEE account's pool T has grown by fee_platform_amount and, when
\* fee_agent_amount > 0, the agent account's pool T by fee_agent_amount; the
\* other two pools of both accounts are unchanged, and the event names the
\* agent's account as fee_agent_account.
C9_FeeRouting ==
    [][ \A p \in Procs :
          LET c  == procs[p]
              e  == c.ev
              T  == e.credit_type
              fk == PlatformKey(DEFAULT_PLATFORM_ACCOUNT_FEE)
              ak == AgentKey(c.agent)
          IN CommitsOp(p, "expense_message") =>
             /\ e \in events'
             /\ Pool(accounts'[fk], T) = Pool(accounts[fk], T) + e.fee_platform_amount
             /\ \A o \in OtherPools(T) : Pool(accounts'[fk], o) = Pool(accounts[fk], o)
             /\ e.fee_agent_amount > 0 =>
                /\ Pool(accounts'[ak], T) = Pool(accounts[ak], T) + e.fee_agent_amount
                /\ \A o \in OtherPools(T) : Pool(accounts'[ak], o) = Pool(accounts[ak], o)
                /\ e.fee_agent_account = ak
      ]_vars

\* An expense labelled REWARD or FREE has paid the platform and the agent.
C9_Witness ==
    \E e \in events :
        /\ e.event_type = "MESSAGE" /\ e.credit_type # "PERMANENT"
        /\ e.fee_agent_amount > 0
        /\ Pool(accounts[e.fee_agent_account], e.credit_type) = e.fee_agent_amount
        /\ Pool(accounts[PlatformKey(DEFAULT_PLATFORM_ACCOUNT_FEE)], e.credit_type)
             = e.fee_platform_amount

NonNegative(a) == a.credits >= 0 /\ a.free_credits >= 0 /\ a.reward_credits >= 0

C11_AdjustmentMirror ==
    [][ \A p \in Procs :
          LET c  == procs[p]
              e  == c.ev
              P  == c.ctype
              u  == UserKey(c.user)
              pk == PlatformKey(DEFAULT_PLATFORM_ACCOUNT_ADJUSTMENT)
          IN CommitsOp(p, "adjustment") =>
             /\ c.amount # 0
             /\ events' = events \cup {e}
             /\ (e.direction = "INCOME") <=> (c.amount > 0)
             /\ e.direction \in {"INCOME", "EXPENSE"}
             /\ e.total_amount = Abs(c.amount) /\ e.credit_type = P
             /\ Pool(accounts'[u], P) = Pool(c.pre, P) + c.amount
             /\ Pool(accounts'[pk], P) = Pool(accounts[pk], P) - c.amount
             /\ \A o \in OtherPools(P) :
                   /\ Pool(accounts'[u], o) = Pool(c.pre, o)
                   /\ Pool(accounts'[pk], o) = Pool(accounts[pk], o)
             /\ \A k \in AcctKeys \ {u, pk} : accounts'[k] = accounts[k]
             /\ \E lu, lp \in legs' \ legs :
                   /\ legs' = legs \cup {lu, lp}
                   /\ lu.account_id = u /\ lp.account_id = pk
                   /\ lu.credit_debit = (IF c.amount > 0 THEN "CREDIT" ELSE "DEBIT")
                   /\ lp.credit_debit = (IF c.amount > 0 THEN "DEBIT" ELSE "CREDIT")
                   /\ \A l \in {lu, lp} :
                         /\ l.change_amount = Abs(c.amount) /\ l.credit_type = P
                         /\ l.event_id = e.id /\ l.tx_type = "ADJUSTMENT"
      ]_vars

\* One caller's positive and the other's negative adjustment are both committed.
C11_Witness ==
    \E e1, e2 \in events :
        /\ e1.event_type = "ADJUSTMENT" /\ e1.upstream_tx_id \in TxIds
        /\ e2.event_type = "ADJUSTMENT" /\ e2.upstream_tx_id \in TxIds
        /\ e1.direction = "INCOME" /\ e2.direction = "EXPENSE"
        /\ e1.total_amount = MaxAmount /\ e2.total_amount = MaxAmount

C13_AllOrNothing ==
    [][ /\ (<<accounts, events, legs>>' # <<accounts, events, legs>>)
             => \E p \in Procs : Commits(p)
        /\ \A p \in Procs :
             (procs[p].pc # "done" /\ procs'[p].pc = "done" /\ procs'[p].result # "ok")
             => UNCHANGED <<accounts, events, legs>>
      ]_vars

\* On the empty store p1's call wrote its accounts, drew its event id and was
\* cancelled: no account row, event or leg exists.
C13_Witness ==
    /\ procs["p1"].pc = "done" /\ procs["p1"].result = "Cancelled"
    /\ procs["p1"].utype # "NONE" /\ procs["p2"].pc = "idle"
    /\ nextId = 2 /\ events = {} /\ legs = {}
    /\ \A k \in AcctKeys : ~accounts[k].exists

\* C14: balance_after accuracy: when a call commits its event, the event's
\* account_id is the user's account and its balance_after is credits +
\* free_credits + reward_credits of that account in the state right after the
\* commit, whatever the other caller does meanwhile and whether or not a refill
\* was applied inside the call.
C14_BalanceAfter ==
    [][ \A p \in Procs :
          LET c == procs[p]
              e == c.ev
          IN (Commits(p) /\ c.op # "update_daily_quota") =>
             /\ e \in events' \ events
             /\ e.account_id = UserKey(c.user)
             /\ e.balance_after = Balance(accounts'[e.account_id])
      ]_vars

\* An event committed for an account that a refill has topped up: the balance
\* recorded is the refilled one.
C14_Witness ==
    \E e \in events :
        /\ e.upstream_tx_id \in TxIds
        /\ accounts[e.account_id].refill_amount > 0
        /\ accounts[e.account_id].last_refill_at > 0
        /\ accounts[e.account_id].free_credits > 1
        /\ e.balance_after = Balance(accounts[e.account_id])

\* C15: quota invariant: in every reachable state every account has
\* refill_amount <= free_quota; an update_daily_quota whose resulting pair, a
\* setting not supplied being taken from the stored row, would have
\* refill_amount > free_quota fails with InvalidAmount and changes nothing.
C15_QuotaInvariant ==
    /\ [](\A k \in AcctKeys : accounts[k].refill_amount <= accounts[k].free_quota)
    /\ [][ \A p \in Procs :
              LET c   == procs[p]
                  d   == procs'[p]
                  row == accounts[UserKey(c.user)]
                  fq  == IF c.has_fq THEN c.fq ELSE row.free_quota
                  ra  == IF c.has_ra THEN c.ra ELSE row.refill_amount
              IN (c.op = "update_daily_quota" /\ c.pc = "quota" /\ d.pc # "quota"
                  /\ d.result # "Cancelled") =>
                 /\ (ra > fq) => /\ d.pc = "done" /\ d.result = "InvalidAmount"
                                 /\ UNCHANGED <<accounts, events, legs>>
                 /\ (d.pc = "commit") =>
                       /\ d.writes[UserKey(c.user)].free_quota = fq
                       /\ d.writes[UserKey(c.user)].refill_amount = ra
                       /\ ra <= fq
          ]_vars

\* p1 asked to lower U1's free_quota alone below the stored refill_amount and
\* was refused; the stored pair is as it was.
C15_Witness ==
    /\ procs["p1"].pc = "done" /\ procs["p1"].result = "InvalidAmount"
    /\ procs["p1"].failedAt = "quota" /\ procs["p2"].pc = "idle"
    /\ accounts[UserKey("U1")].refill_amount > MaxQuota
    /\ accounts[UserKey("U1")].free_quota >= accounts[UserKey("U1")].refill_amount

\* C16: update_daily_quota for a user that has no account fails with
\* AccountNotFound, and no update_daily_quota creates an account row.
C16_QuotaAccountNotFound ==
    [][ \A p \in Procs :
          LET c == procs[p]
              d == procs'[p]
              u == UserKey(c.user)
          IN c.op = "update_daily_quota" =>
             /\ (c.pc = "quota" /\ d.pc # "quota" /\ d.result # "Cancelled"
                 /\ ~accounts[u].exists)
                => d.pc = "done" /\ d.result = "AccountNotFound"
             /\ Commits(p) => accounts[u].exists
      ]_vars

\* C17: cursor pagination is complete and duplicate-free: the events a client
\* has visited, page after page, are in strictly decreasing id order, no page
\* holds more than limit events, and once has_more is false every matching
\* event committed before the first call has been visited exactly once, also
\* when events were committed between the page requests.
C17_Pagination ==
    /\ [](\A i \in 1..(Len(lister.seen) - 1) : lister.seen[i] > lister.seen[i + 1])
    /\ [](lister.pc = "done" =>
             \A id \in lister.first :
                 Cardinality({i \in 1..Len(lister.seen) : lister.seen[i] = id}) = 1)
    /\ [][ lister' # lister =>
             /\ Len(lister'.seen) - Len(lister.seen) <= lister'.limit
             /\ lister'.has_more => lister'.cursor = lister'.seen[Len(lister'.seen)]
             /\ \A i \in 1..Len(lister'.seen) : lister'.seen[i] \in lister'.last
          ]_vars

\* A client has paged one event at a time through three or more events, and
\* a matching event was committed between its first and its last request.
C17_Witness ==
    /\ lister.pc = "done" /\ lister.limit = 1
    /\ Cardinality(lister.first) >= 3
    /\ Len(lister.seen) >= 3
    /\ lister.last # lister.first

\* C18: missing-account listing: a listing asked for a user or an agent that
\* has no account returns ([], null, false) without error, and no listing call
\* changes the store: no account row is created, no event or leg written.
C18_MissingAccountListing ==
    [][ lister' # lister =>
          LET k == IF lister'.kind = "user" THEN UserKey(lister'.owner)
                   ELSE AgentKey(lister'.owner)
          IN /\ UNCHANGED <<accounts, events, legs, nextId>>
             /\ ~accounts[k].exists =>
                   /\ lister'.seen = <<>> /\ lister'.cursor = NoCursor
                   /\ ~lister'.has_more /\ lister'.error = "none"
                   /\ lister'.pc = "done"
                   /\ ~accounts'[k].exists
      ]_vars

\* A listing was asked for a user without an account while other accounts
\* hold events: it came back empty and the user still has no account.
C18_Witness ==
    /\ lister.pc = "done" /\ lister.kind = "user"
    /\ ~accounts[UserKey(lister.owner)].exists
    /\ lister.seen = <<>> /\ lister.error = "none"
    /\ events # {}

\* C19: fetch_event_by_upstream_tx_id is single-valued: in every reachable
\* state at most one committed event matches the lookup of any upstream_tx_id,
\* also when the identifier was used once as an API upstream_tx_id and once as
\* an EXECUTOR message_id.
C19_FetchSingleValued ==
    \A e \in events :
        Cardinality(fetch_credit_event_by_upstream_tx_id(e.upstream_tx_id)) = 1

\* The call of p cannot take its next step until q's transaction ends: q holds
\* the row lock p asks for, or q's uncommitted event has the key p inserts.
WaitsFor(p, q) ==
    LET c == procs[p]
    IN \/ c.pc \in {"user", "quota"} /\ UserKey(c.user) \in procs[q].locks
       \/ c.pc = "platform" /\ PlatformAcct(c) \in procs[q].locks
       \/ c.pc = "agent" /\ AgentKey(c.agent) \in procs[q].locks
       \/ c.pc = "flush" /\ procs[q].pc = "commit"
          /\ procs[q].op # "update_daily_quota" /\ SameUpstream(procs[q].ev, c.ev)

\* C20: deadlock freedom: a call takes its row locks in the order user account,
\* platform account, agent account and keeps them until it commits or is rolled
\* back; no state is reachable in which two calls wait for each other; and
\* every call in flight eventually commits or fails.
C20_DeadlockFreedom ==
    /\ [][ \A p \in Procs :
              LET c == procs[p]
                  d == procs'[p]
              IN /\ d.pc # "done" => c.locks \subseteq d.locks
                 /\ d.pc = "done" => d.locks = {}
                 /\ \A k \in d.locks \ c.locks :
                       /\ d.locks = c.locks \cup {k}
                       /\ k[1] = "USER" => c.locks = {} /\ k = UserKey(c.user)
                       /\ k[1] = "PLATFORM" => c.locks = {UserKey(c.user)}
                       /\ k[1] = "AGENT" => c.locks = {UserKey(c.user), PlatformAcct(c)}
          ]_vars
    /\ [](\A p, q \in Procs : ~(p # q /\ WaitsFor(p, q) /\ WaitsFor(q, p)))
    /\ \A p \in Procs : (procs[p].pc \in InTx) ~> (procs[p].pc = "done")

\* One call holds its user's lock and waits for the platform account that the
\* other, holding two locks, has locked.
C20_Witness ==
    \E p, q \in Procs :
        /\ p # q /\ WaitsFor(p, q)
        /\ procs[p].pc = "platform" /\ procs[p].locks # {}
        /\ Cardinality(procs[q].locks) >= 2

\* The signed change a call makes to its user's three-pool sum.
UserEffect(c) ==
    CASE c.op \in {"recharge", "reward", "adjustment"} -> c.amount
      [] c.op = "expense_message" -> 0 - c.total

RECURSIVE SumBalances(_)
SumBalances(K) ==
    IF K = {} THEN 0
    ELSE LET k == CHOOSE x \in K : TRUE IN Balance(accounts[k]) + SumBalances(K \ {k})

\* C22: zero-sum across accounts: with refills disabled (refill_amount = 0 on
\* every account) the balances of all user, agent and platform accounts,
\* credits + free_credits + reward_credits each, sum to 0 in every reachable
\* state: every committed recharge, reward, adjustment and expense_message
\* leaves the sum as it was.
C22_ZeroSum ==
    (\A k \in AcctKeys : accounts[k].refill_amount = 0) => SumBalances(AcctKeys) = 0

\* C23: update_daily_quota is settings-only: when a call commits, free_quota
\* and refill_amount of the user's account are the supplied values, the stored
\* value being kept for a setting not supplied; credits, free_credits,
\* reward_credits and last_refill_at of that account, every other account, the
\* events and the legs are as before.
C23_SettingsOnly ==
    [][ \A p \in Procs :
          LET c == procs[p]
              u == UserKey(c.user)
              a == accounts[u]
              b == accounts'[u]
          IN CommitsOp(p, "update_daily_quota") =>
             /\ b.free_quota = (IF c.has_fq THEN c.fq ELSE a.free_quota)
             /\ b.refill_amount = (IF c.has_ra THEN c.ra ELSE a.refill_amount)
             /\ b.credits = a.credits /\ b.free_credits = a.free_credits
             /\ b.reward_credits = a.reward_credits
             /\ a.exists => b.last_refill_at = a.last_refill_at
             /\ \A k \in AcctKeys \ {u} : accounts'[k] = accounts[k]
             /\ UNCHANGED <<events, legs>>
      ]_vars

\* p1 set U1's refill_amount alone, an hour after the last refill: the stored
\* free_quota is kept, the pools and last_refill_at are untouched, no event
\* was added.
C23_Witness ==
    /\ procs["p1"].pc = "done" /\ procs["p1"].result = "ok"
    /\ procs["p1"].utype = "NONE" /\ procs["p2"].pc = "idle"
    /\ now > 0
    /\ accounts[UserKey("U1")].refill_amount = MaxQuota
    /\ accounts[UserKey("U1")].free_quota > MaxQuota
    /\ accounts[UserKey("U1")].last_refill_at = 0
    /\ accounts[UserKey("U1")].free_credits = 1
    /\ Cardinality(events) = 3

\* The signed change a call makes to its platform account's three-pool sum.
PlatformEffect(c) ==
    CASE c.op \in {"recharge", "reward", "adjustment"} -> 0 - c.amount
      [] c.op = "expense_message" -> c.fee_platform

\* C24: no lost updates on a shared account: no two calls hold the same row;
\* a committed row changes only when the call holding it commits, so it is
\* the same at a call's commit as at its locked read; and each commit leaves
\* every account it touched at the committed row plus the call's own change
\* (the user's row taken after any due refill), keeping the quota settings an
\* update_daily_quota committed before it: the committed calls act on each
\* account one after another, in commit order.
C24_NoLostUpdates ==
    /\ [](\A p, q \in Procs : p # q => procs[p].locks \cap procs[q].locks = {})
    /\ [][ /\ \A k \in AcctKeys :
                accounts'[k] # accounts[k]
                => \E p \in Procs : Commits(p) /\ k \in procs[p].locks
           /\ \A p \in Procs :
                LET c  == procs[p]
                    u  == UserKey(c.user)
                    pk == PlatformAcct(c)
                    ak == AgentKey(c.agent)
                    r  == Refill(accounts[u], c.pre.last_refill_at)
                IN (Commits(p) /\ c.op # "update_daily_quota") =>
                   /\ accounts[u].exists => c.pre \in {accounts[u], r}
                   /\ Balance(accounts'[u]) = Balance(c.pre) + UserEffect(c)
                   /\ accounts[u].refill_amount = 0
                      => Balance(accounts'[u]) = Balance(accounts[u]) + UserEffect(c)
                   /\ accounts'[u].free_quota = accounts[u].free_quota
                   /\ accounts'[u].refill_amount = accounts[u].refill_amount
                   /\ Balance(accounts'[pk]) = Balance(accounts[pk]) + PlatformEffect(c)
                   /\ ak \in c.locks
                      => Balance(accounts'[ak]) = Balance(accounts[ak]) + c.fee_agent
         ]_vars

\* Two expense_message calls of the same user are committed: the user's
\* balance has lost both totals, and the FEE and the agent's account hold both
\* calls' fees.
C24_Witness ==
    \E e1, e2 \in events :
        /\ e1.id < e2.id
        /\ e1.event_type = "MESSAGE" /\ e2.event_type = "MESSAGE"
        /\ e1.account_id = e2.account_id
        /\ e1.fee_agent_amount > 0 /\ e2.fee_agent_amount > 0
        /\ e1.balance_after = e2.balance_after + e2.total_amount
        /\ Balance(accounts[e2.account_id]) = e2.balance_after
        /\ Balance(accounts[PlatformKey(DEFAULT_PLATFORM_ACCOUNT_FEE)])
             = e1.fee_platform_amount + e2.fee_platform_amount
        /\ Balance(accounts[AgentKey("A1")]) = e1.fee_agent_amount + e2.fee_agent_amount

\* C25: the idempotency check precedes validation and mutation: a recharge,
\* reward, adjustment or expense_message call ends at its entry with
\* DuplicateUpstreamTx exactly when its key is already recorded, whatever its
\* other inputs; with a fresh key it ends at its entry with InvalidAmount or
\* MissingNote, or goes on to its first account with valid inputs (amount > 0,
\* a non-zero adjustment with a note, base_llm_amount >= 0); in all three
\* cases no account has been locked, created or changed.
C25_CheckPrecedesValidation ==
    [][ \A p \in Procs :
          LET d     == procs'[p]
              dup   == EventsWithKey(events, d.utype, d.txid) # {}
              valid == CASE d.op \in {"recharge", "reward"} -> d.amount > 0
                         [] d.op = "adjustment" -> d.amount # 0 /\ d.note
                         [] d.op = "expense_message" -> d.amount >= 0
                         [] OTHER -> FALSE
          IN (procs[p].pc = "idle" /\ d.pc # "idle" /\ d.utype # "NONE") =>
             /\ UNCHANGED <<accounts, events, legs>>
             /\ d.locks = {} /\ d.writes = NoWrites
             /\ dup => d.pc = "done" /\ d.result = "DuplicateUpstreamTx"
                       /\ d.failedAt = "check"
             /\ ~dup => \/ /\ d.pc = "done" /\ d.failedAt = "validate"
                           /\ d.result \in {"InvalidAmount", "MissingNote"}
                        \/ d.pc = "user" /\ valid
      ]_vars

\* On a ledger holding events, p1's adjustment with a fresh key was refused at
\* its entry for its missing note: no account row has changed or been locked.
C25_Witness ==
    /\ procs["p1"].pc = "done" /\ procs["p1"].result = "MissingNote"
    /\ procs["p1"].failedAt = "validate" /\ procs["p1"].utype = "API"
    /\ EventsWithKey(events, "API", procs["p1"].txid) = {}
    /\ procs["p2"].pc = "idle"
    /\ Cardinality(events) = 3
    /\ \A k \in AcctKeys : accounts[k] = SeedAccounts(<<1, 2, 3, 0, 0>>)[k]

\* C26: expense_message accepts every non-negative base_llm_amount: a call
\* with base_llm_amount >= 0 whose total_amount the user's three pools cover is
\* refused at no account step, also when fee_platform_amount is 0, and commits
\* exactly one MESSAGE event; InvalidAmount is the outcome only of a negative
\* base_llm_amount, at the entry.
C26_ExpenseAcceptsNonNegative ==
    [][ \A p \in Procs :
          LET c == procs[p]
              d == procs'[p]
              a == Refill(get_or_create_in_session(accounts[UserKey(c.user)], now), now)
          IN /\ (c.op = "expense_message" /\ c.pc \in InTx /\ d.pc = "done") =>
                /\ d.result # "InvalidAmount"
                /\ (c.pc = "user" /\ Balance(a) >= c.total) => d.result = "Cancelled"
                /\ c.pc \in {"platform", "agent"} => d.result = "Cancelled"
             /\ (c.pc = "idle" /\ d.utype = "EXECUTOR" /\ d.result = "InvalidAmount")
                => d.failedAt = "validate"
             /\ CommitsOp(p, "expense_message") =>
                /\ c.amount >= 0
                /\ events' = events \cup {c.ev} /\ c.ev \notin events
                /\ c.ev.event_type = "MESSAGE"
      ]_vars

\* The accounts an event is listed under: its user's, and the agent's whose
\* fee it carries.
ListedUnder(e) ==
    {e.account_id} \cup (IF e.fee_agent_amount > 0 THEN {e.fee_agent_account} ELSE {})

\* C27: event id order equals commit order per listing: an event that commits
\* has a strictly greater id than every event committed before it that belongs
\* to the same user account or names the same fee_agent_account, also when the
\* two calls overlapped; a call draws its event id only while it holds the row
\* locks of every account the event is listed under, and holds them until its
\* transaction ends.
C27_IdOrderIsCommitOrder ==
    /\ [](\A p \in Procs :
            (procs[p].pc \in InTx /\ procs[p].ev.id # 0)
            => ListedUnder(procs[p].ev) \subseteq procs[p].locks)
    /\ [][ \A p \in Procs :
              LET c == procs[p]
              IN /\ (c.pc = "event" /\ procs'[p].pc # "event" /\ procs'[p].pc # "done")
                    => /\ procs'[p].ev.id = nextId /\ nextId' > nextId
                       /\ ListedUnder(procs'[p].ev) \subseteq c.locks
                 /\ (Commits(p) /\ c.op # "update_daily_quota") =>
                    /\ events' = events \cup {c.ev}
                    /\ \A e \in events :
                          ListedUnder(e) \cap ListedUnder(c.ev) # {} => e.id < c.ev.id
          ]_vars

\* Two users' expenses carrying a fee for the same agent are committed, with
\* different ids.
C27_Witness ==
    \E e1, e2 \in events :
        /\ e1.id < e2.id
        /\ e1.account_id # e2.account_id
        /\ e1.fee_agent_amount > 0 /\ e2.fee_agent_amount > 0
        /\ e1.fee_agent_account = e2.fee_agent_account
        /\ e1.upstream_tx_id \in TxIds /\ e2.upstream_tx_id \in TxIds

\* The net of an account's legs carrying one of the credit types: CREDIT legs
\* minus DEBIT legs.
NetLegs(k, types) ==
    SumAmounts({l \in legs : /\ l.account_id = k /\ l.credit_debit = "CREDIT"
                             /\ l.credit_type \in types})
    - SumAmounts({l \in legs : /\ l.account_id = k /\ l.credit_debit = "DEBIT"
                               /\ l.credit_type \in types})

RefillsDisabled == \A k \in AcctKeys : accounts[k].refill_amount = 0

\* The user accounts an expense_message has been charged to.
Payers == {e.account_id : e \in {x \in events : x.event_type = "MESSAGE"}}

\* C28 as stated: balances are reconstructible from the legs: with refills
\* disabled, for every account credits + free_credits + reward_credits is the
\* net of the account's legs, and for each credit_type separately the pool's
\* balance is the net of the account's legs carrying that credit_type.
C28_ReconstructiblePerPool ==
    RefillsDisabled =>
        \A k \in AcctKeys :
            /\ Balance(accounts[k]) = NetLegs(k, CreditType)
            /\ \A ct \in CreditType : Pool(accounts[k], ct) = NetLegs(k, {ct})

\* C28: balances are reconstructible from the legs: with refills disabled, for
\* every account credits + free_credits + reward_credits is the net of the
\* account's legs; for each credit_type separately the pool's balance is the
\* net of the account's legs carrying that credit_type on every account that
\* no expense_message was charged to (an expense books its whole total_amount
\* on the credit_type of the deepest pool it took from).
C28_ReconstructibleFromLegs ==
    RefillsDisabled =>
        \A k \in AcctKeys :
            /\ Balance(accounts[k]) = NetLegs(k, CreditType)
            /\ k \notin Payers
               => \A ct \in CreditType : Pool(accounts[k], ct) = NetLegs(k, {ct})

\* An expense that took from all three pools of its user is committed, with
\* fees paid to the platform and to the agent, and no refill is configured.
C28_Witness ==
    /\ RefillsDisabled
    /\ \E e \in events :
          /\ e.event_type = "MESSAGE" /\ e.credit_type = "PERMANENT"
          /\ e.total_amount = 4 /\ e.fee_agent_amount > 0
          /\ accounts[e.account_id].free_credits = 0
          /\ Pool(accounts[e.account_id], "FREE") # NetLegs(e.account_id, {"FREE"})
          /\ Balance(accounts[e.account_id]) = NetLegs(e.account_id, CreditType)
          /\ Balance(accounts[e.fee_agent_account]) = e.fee_agent_amount

\* C29: ledger totality per event: every committed event has two legs, or
\* three when it is an expense with an agent fee; every leg names a committed
\* event and an existing account; the legs of one event are on different
\* accounts; and when a call commits, the accounts whose balance it changed
\* (the user's counted from the row after any due refill) are exactly the
\* accounts carrying one of the legs it adds.
C29_LedgerTotality ==
    /\ [](/\ \A e \in events :
               /\ Cardinality(LegsOfEvent(e)) >= 2
               /\ Cardinality(LegsOfEvent(e)) =
                     (IF e.event_type = "MESSAGE" /\ e.fee_agent_amount > 0 THEN 3 ELSE 2)
               /\ \A l1, l2 \in LegsOfEvent(e) : l1.account_id = l2.account_id => l1 = l2
          /\ \A l \in legs :
               /\ \E e \in events : e.id = l.event_id
               /\ l.account_id \in AcctKeys /\ accounts[l.account_id].exists)
    /\ [][ \A p \in Procs :
              LET c == procs[p]
                  u == UserKey(c.user)
                  changed == {k \in AcctKeys :
                                 Balance(accounts'[k]) #
                                 Balance(IF k = u THEN c.pre ELSE accounts[k])}
              IN (Commits(p) /\ c.op # "update_daily_quota") =>
                 /\ {l.account_id : l \in legs' \ legs} = changed
                 /\ Cardinality(legs' \ legs) = Cardinality(changed)
                 /\ \A l \in legs' \ legs : l.event_id = c.ev.id /\ c.ev \in events'
          ]_vars

\* An expense with an agent fee is committed with three legs, on its user,
\* the FEE account and the agent's account, beside events with two legs.
C29_Witness ==
    \E e \in events :
        /\ e.event_type = "MESSAGE" /\ e.fee_agent_amount > 0
        /\ {l.account_id : l \in LegsOfEvent(e)} =
              {e.account_id, PlatformKey(DEFAULT_PLATFORM_ACCOUNT_FEE), e.fee_agent_account}
        /\ Cardinality(LegsOfEvent(e)) = 3
        /\ \E e2 \in events : Cardinality(LegsOfEvent(e2)) = 2

\* C30: has_more and next_cursor are exact: a call of either listing with
\* limit >= 1 returns the min(limit, n) greatest-id matching events below the
\* cursor, n being the number of matching events below the cursor, in
\* decreasing id order; has_more is true iff n > limit; next_cursor is the id
\* of the last event returned, and null iff none is returned.
C30_HasMoreExact ==
    [][ lister' # lister =>
          LET d     == lister'
              M     == MatchingIds(d.kind, d.owner, d.direction, d.event_type)
              cur   == IF lister.pc = "idle" THEN NoCursor ELSE lister.cursor
              below == {i \in M : cur # NoCursor => i < cur}
              n     == Cardinality(below)
              from  == Len(lister.seen)
              new   == {d.seen[i] : i \in (from + 1)..Len(d.seen)}
          IN /\ d.limit >= 1
             /\ Len(d.seen) - from = Min(d.limit, n)
             /\ Cardinality(new) = Min(d.limit, n)
             /\ new \subseteq below
             /\ \A i \in new : \A j \in below \ new : j < i
             /\ \A i \in (from + 1)..(Len(d.seen) - 1) : d.seen[i] > d.seen[i + 1]
             /\ d.has_more <=> (n > d.limit)
             /\ (new = {}) <=> (d.cursor = NoCursor)
             /\ new # {} => d.cursor = d.seen[Len(d.seen)]
      ]_vars

\* A client read four matching events in two pages of two: the second page
\* held exactly limit events, has_more came back false and next_cursor is the
\* id of the last event.
C30_Witness ==
    /\ lister.pc = "done" /\ lister.limit = 2
    /\ Len(lister.seen) = 4
    /\ ~lister.has_more
    /\ lister.cursor = lister.seen[4]

====
